---- MODULE Spec2Model ----
(***************************************************************************)
(* Model of the persistent vector memory graph of hexemini:                *)
(*   src/server/memory/vector_store.py  (class VectorStore)                *)
(*   src/server/server.py               (app_lifespan)                     *)
(*                                                                         *)
(* One asyncio event loop runs the lifespan coroutine (Main) and a fixed   *)
(* number of request handlers (Workers).  Coroutines interleave only at    *)
(* await points (lock acquisition); file I/O is split into its system      *)
(* calls because the process may die, or the call may fail, between them.  *)
(*                                                                         *)
(* Spec / FairSpec   the lifespan and the concurrent request handlers      *)
(* DataSpec          one caller: records, edges, one save and one load     *)
(* EdgeSpec          one caller: add_connection call by call               *)
(* GraphSpec         one caller: get_subgraph, one loop iteration a step   *)
(* SearchSpec        one caller: search on records of several directions   *)
(* PageSpec          one caller: get_all_memories on records of several    *)
(*                   timestamps                                            *)
(* ReloadSpec        one caller: initialize() on a store that holds records *)
(***************************************************************************)
EXTENDS Integers, Sequences, FiniteSets, TLC

\* ---------------------------------------------------------------- bounds
MaxIds == 2
MaxEdges == 1
DataMaxEdges == 2
EdgeMaxEdges == 2
GraphMaxEdges == 3
SearchMaxItems == 3
PageMaxItems == 4
PageMaxEdges == 1
ReloadMaxEdges == 1

\* ------------------------------------------------------------ value sets
Main == 0
\* two request handlers run beside the lifespan coroutine
Workers == {1, 2}
Procs == {Main} \cup Workers
\* the handler that stands for the single caller of DataSpec and GraphSpec
Caller == 1
NoOwner == -1
Ids == 1..MaxIds

\* np.ndarray values are records [nd |-> <<..>>]; plain lists are sequences.
Lists == {<<1, 0>>, <<1>>}
\* the reading of datetime.now(), later than the timestamps callers bring
Timestamps == {2}
RelTypes == {"related", "cites"}
\* metadata dicts a caller passes: without and with a "timestamp" key
MetaChoices == {[text |-> "a"], [text |-> "a", timestamp |-> 1]}
NoId == -1
\* what the concurrent request handlers pass (memory_tools.py:26-33)
WorkerLists == {<<1, 0>>}
WorkerMetas == {[text |-> "a", timestamp |-> 1]}
WorkerClock == {2}
WorkerRelTypes == {"related"}

NpArray(l) == [nd |-> l]
ToList(a) == a.nd

\* ------------------------------------------------- Python dict (ordered)
\* A dict is the sequence of its entries [k, v] in insertion order.
Keys(d) == {d[i].k : i \in 1..Len(d)}
Get(d, key) == d[CHOOSE i \in 1..Len(d) : d[i].k = key].v
Put(d, key, val) ==
    IF key \in Keys(d)
    THEN [i \in 1..Len(d) |-> IF d[i].k = key THEN [k |-> key, v |-> val] ELSE d[i]]
    ELSE Append(d, [k |-> key, v |-> val])
Range(s) == {s[i] : i \in 1..Len(s)}
Remove(s, x) == SelectSeq(s, LAMBDA y : y # x)

\* ------------------------------------------------------------ asyncio.Lock
\* lock = [owner, waiters]; waiters is the FIFO of suspended acquire() calls.
LockFree(l) == l.owner = NoOwner /\ l.waiters = <<>>
AcquireNoWait(l, p) == [owner |-> p, waiters |-> l.waiters]

Acquire(l, p) ==
    IF LockFree(l) THEN [owner |-> p, waiters |-> <<>>]
    ELSE [l EXCEPT !.waiters = Append(@, p)]
Release(l) ==
    IF l.waiters = <<>> THEN [owner |-> NoOwner, waiters |-> <<>>]
    ELSE [owner |-> Head(l.waiters), waiters |-> Tail(l.waiters)]
\* p called acquire() and acquire() has returned
Acquired(l, p) == l.owner = p /\ p \notin Range(l.waiters)

\* --------------------------------------------------------- json.dump/load
\* The text of vectors.json is a sequence of tokens: one per top-level
\* member of the object and a closing token that json.dump emits last.
NoFile == <<[k |-> "ENOENT", v |-> <<>>]>>
EndTok == [k |-> "}", v |-> <<>>]

SerializableVectors(vs) == [i \in 1..Len(vs) |-> [k |-> vs[i].k, v |-> ToList(vs[i].v)]]
SaveData(vs, ms, cs) ==
    << [k |-> "vectors", v |-> SerializableVectors(vs)],
       [k |-> "metadata", v |-> ms],
       [k |-> "connections", v |-> cs] >>
JsonDump(data) == Append(data, EndTok)
JsonValid(file) == file # NoFile /\ Len(file) >= 1 /\ file[Len(file)] = EndTok
JsonLoad(file) == SubSeq(file, 1, Len(file) - 1)

TryLoadNoConnections(file, ioerr, vs, ms, cs) ==
    IF ioerr \/ ~JsonValid(file)
    THEN [raised |-> TRUE, vectors |-> vs, metadata |-> ms, connections |-> cs]
    ELSE LET data == JsonLoad(file) IN
         IF {"vectors", "metadata", "connections"} \subseteq Keys(data)
         THEN LET srcv == Get(data, "vectors") IN
              [raised |-> FALSE,
               vectors |-> [i \in 1..Len(srcv) |-> [k |-> srcv[i].k, v |-> NpArray(srcv[i].v)]],
               metadata |-> Get(data, "metadata"),
               connections |-> cs]
         ELSE [raised |-> TRUE, vectors |-> vs, metadata |-> ms, connections |-> cs]

TryLoadMerge(file, ioerr, vs, ms, cs) ==
    LET RECURSIVE Update(_, _)
        Update(d, src) == IF src = <<>> THEN d
                          ELSE Update(Put(d, src[1].k, src[1].v), Tail(src))
    IN IF ioerr \/ ~JsonValid(file)
          \/ ~({"vectors", "metadata", "connections"} \subseteq Keys(JsonLoad(file)))
       THEN [raised |-> TRUE, vectors |-> vs, metadata |-> ms, connections |-> cs]
       ELSE LET data == JsonLoad(file)
                srcv == Get(data, "vectors")
                v2 == [i \in 1..Len(srcv) |-> [k |-> srcv[i].k, v |-> NpArray(srcv[i].v)]]
            IN [raised |-> FALSE, vectors |-> Update(vs, v2),
                metadata |-> Update(ms, Get(data, "metadata")),
                connections |-> Update(cs, Get(data, "connections"))]

\* the try block of _load_from_disk: the assignments made before it raised
TryLoad(file, ioerr, vs, ms, cs) ==
    IF ioerr \/ ~JsonValid(file)
    THEN [raised |-> TRUE, vectors |-> vs, metadata |-> ms, connections |-> cs]
    ELSE LET data == JsonLoad(file) IN
         IF "vectors" \notin Keys(data)
         THEN [raised |-> TRUE, vectors |-> vs, metadata |-> ms, connections |-> cs]
         ELSE LET srcv == Get(data, "vectors")
                  v2 == [i \in 1..Len(srcv) |-> [k |-> srcv[i].k, v |-> NpArray(srcv[i].v)]]
              IN IF "metadata" \notin Keys(data)
                 THEN [raised |-> TRUE, vectors |-> v2, metadata |-> ms, connections |-> cs]
                 ELSE IF "connections" \notin Keys(data)
                      THEN [raised |-> TRUE, vectors |-> v2,
                            metadata |-> Get(data, "metadata"), connections |-> cs]
                      ELSE [raised |-> FALSE, vectors |-> v2,
                            metadata |-> Get(data, "metadata"),
                            connections |-> Get(data, "connections")]

LoadFromDiskNoReset(file, ioerr, vs, ms, cs) == TryLoad(file, ioerr, vs, ms, cs)

\* _load_from_disk: try block, and the except clause that empties the store
LoadFromDisk(file, ioerr, vs, ms, cs) ==
    LET r == TryLoad(file, ioerr, vs, ms, cs) IN
    IF r.raised
    THEN [raised |-> TRUE, vectors |-> <<>>, metadata |-> <<>>, connections |-> <<>>]
    ELSE r


\* files the store may find at startup that it did not write completely:
\* no file, and a JSON object lacking one of the three maps.  Id 0 is
\* a uuid of an earlier life of the store; uuid4 never returns it again.
OldEntry == [k |-> 0, v |-> <<1, 0>>]
CorruptNoConnections ==
    JsonDump(<< [k |-> "vectors", v |-> <<OldEntry>>],
                [k |-> "metadata", v |-> <<[k |-> 0, v |-> [text |-> "a", timestamp |-> 1]]>>] >>)
InitialFiles == {NoFile, CorruptNoConnections}

\* ------------------------------------------------------------- uuid.uuid4
\* str(uuid.uuid4()): a 122-bit random id, modelled as an id never issued
\* before.  Ids are opaque, so the least unused one stands for any of them.
Min(S) == CHOOSE x \in S : \A y \in S : x <= y
Uuid4Reuse(used) == Ids
Uuid4(used) == IF Ids \ used = {} THEN {} ELSE {Min(Ids \ used)}

\* ------------------------------------------------- add_item, lines 75-81
AddItemStampAlways(vs, ms, cs, id, vec, meta, now) ==
    [vectors |-> Put(vs, id, vec),
     metadata |-> Put(ms, id, [x \in DOMAIN meta \cup {"timestamp"} |->
                                 IF x = "timestamp" THEN now ELSE meta[x]]),
     connections |-> Put(cs, id, <<>>)]

AddItemNoMetadata(vs, ms, cs, id, vec, meta, now) ==
    [vectors |-> Put(vs, id, vec),
     metadata |-> ms,
     connections |-> Put(cs, id, <<>>)]

AddItemSelfEdge(vs, ms, cs, id, vec, meta, now) ==
    [vectors |-> Put(vs, id, vec),
     metadata |-> Put(ms, id, IF "timestamp" \in DOMAIN meta THEN meta
                              ELSE meta @@ [timestamp |-> now]),
     connections |-> Put(cs, id, <<[to |-> id, type |-> "related"]>>)]

AddItem(vs, ms, cs, id, vec, meta, now) ==
    [vectors |-> Put(vs, id, vec),
     metadata |-> Put(ms, id, IF "timestamp" \in DOMAIN meta THEN meta
                              ELSE meta @@ [timestamp |-> now]),
     connections |-> Put(cs, id, <<>>)]

\* ---------------------------------------------- add_connection, line 91
IdsExistFromOnly(vs, from, to) == from \in Keys(vs)

IdsExist(vs, from, to) == from \in Keys(vs) /\ to \in Keys(vs)

\* -------------------------------------------- add_connection, lines 94-96
AddConnectionAppend(cs, from, to, type) ==
    Put(cs, from, Append(Get(cs, from), [to |-> to, type |-> type]))

AddConnectionPrepend(cs, from, to, type) ==
    LET connection == [to |-> to, type |-> type]
        old == Get(cs, from)
    IN IF connection \in Range(old) THEN cs
       ELSE Put(cs, from, <<connection>> \o old)

AddConnection(cs, from, to, type) ==
    LET connection == [to |-> to, type |-> type]
        old == Get(cs, from)
    IN IF connection \in Range(old) THEN cs
       ELSE Put(cs, from, Append(old, connection))

TotalEdges(cs) ==
    LET RECURSIVE Sum(_)
        Sum(i) == IF i = 0 THEN 0 ELSE Len(cs[i].v) + Sum(i - 1)
    IN Sum(Len(cs))

\* -------------------------------------------------------------- variables
VARIABLES
    pc,           \* Procs -> position of each coroutine
    item_id,      \* Workers -> the local item_id of a running add_item
    ret,          \* Workers -> outcome of the last call
    lock,         \* self.lock
    vectors,      \* self.vectors
    metadata,     \* self.metadata
    connections,  \* self.connections
    disk,         \* contents of <storage_path>/vectors.json
    issued,       \* ids uuid4 has returned so far (history)
    loadStatus,   \* what initialize printed
    saveStatus,   \* what the last _save_to_disk printed
    args,         \* arguments of the single caller's call (DataSpec, GraphSpec)
    visited,      \* get_subgraph: the local visited
    queue,        \* get_subgraph: the local queue
    result        \* the local result (get_subgraph), the list returned (reads)

\* the locals of the call whose steps are followed one by one
frame == <<args, visited, queue, result>>

vars == <<pc, item_id, ret, lock, vectors, metadata, connections, disk, issued,
          loadStatus, saveStatus, args, visited, queue, result>>

NoArgs == [op |-> "none"]
NoResult == [nodes |-> <<>>, edges |-> <<>>]

FreeLock == [owner |-> NoOwner, waiters |-> <<>>]

Init ==
    /\ pc = [p \in Procs |-> IF p = Main THEN "down" ELSE "idle"]
    /\ item_id = [t \in Workers |-> NoId]
    /\ ret = [t \in Workers |-> "none"]
    /\ lock = FreeLock
    /\ vectors = <<>>
    /\ metadata = <<>>
    /\ connections = <<>>
    /\ disk \in InitialFiles
    /\ issued = {}
    /\ loadStatus = "none"
    /\ saveStatus = "none"
    /\ args = NoArgs
    /\ visited = {}
    /\ queue = <<>>
    /\ result = NoResult

\* -------------------------------------------------- lifecycle (server.py)
\* app_lifespan: VectorStore() and initialize() up to the lock of the load
Initialize ==
    /\ pc[Main] = "down"
    /\ IF disk # NoFile
       THEN /\ lock' = Acquire(lock, Main)
            /\ pc' = [pc EXCEPT ![Main] = "load"]
            /\ UNCHANGED loadStatus
       ELSE /\ pc' = [pc EXCEPT ![Main] = "initialized"]
            /\ loadStatus' = "nofile"
            /\ UNCHANGED lock
    /\ UNCHANGED <<item_id, ret, vectors, metadata, connections, disk, issued, saveStatus>>
    /\ UNCHANGED frame

\* _load_from_disk under the lock; the read may fail
LoadBody ==
    /\ pc[Main] = "load"
    /\ Acquired(lock, Main)
    /\ \E ioerr \in BOOLEAN :
          LET r == LoadFromDisk(disk, ioerr, vectors, metadata, connections) IN
          /\ vectors' = r.vectors
          /\ metadata' = r.metadata
          /\ connections' = r.connections
          /\ loadStatus' = IF r.raised THEN "failed" ELSE "loaded"
    /\ lock' = Release(lock)
    /\ pc' = [pc EXCEPT ![Main] = "initialized"]
    /\ UNCHANGED <<item_id, ret, disk, issued, saveStatus>>
    /\ UNCHANGED frame

\* yield AppContext(...): the server starts serving requests
Yield ==
    /\ pc[Main] = "initialized"
    /\ pc' = [pc EXCEPT ![Main] = "serving"]
    /\ UNCHANGED <<item_id, ret, lock, vectors, metadata, connections, disk, issued,
                   loadStatus, saveStatus>>
    /\ UNCHANGED frame

\* the lifespan ends: close() calls _save_to_disk, which asks for the lock
Shutdown ==
    /\ pc[Main] = "serving"
    /\ lock' = Acquire(lock, Main)
    /\ pc' = [pc EXCEPT ![Main] = "save"]
    /\ UNCHANGED <<item_id, ret, vectors, metadata, connections, disk, issued,
                   loadStatus, saveStatus>>
    /\ UNCHANGED frame

\* what is left when the process is gone: the file and the ids handed out
Down ==
    /\ pc' = [p \in Procs |-> IF p = Main THEN "down" ELSE "idle"]
    /\ item_id' = [t \in Workers |-> NoId]
    /\ ret' = [t \in Workers |-> "none"]
    /\ lock' = FreeLock
    /\ vectors' = <<>>
    /\ metadata' = <<>>
    /\ connections' = <<>>
    /\ loadStatus' = "none"
    /\ saveStatus' = "none"
    /\ UNCHANGED <<disk, issued>>
    /\ UNCHANGED frame

\* close() has returned and the process ends
Exit ==
    /\ pc[Main] = "closed"
    /\ Down

\* the process is killed at any point
Crash ==
    /\ pc[Main] # "down"
    /\ Down

\* ------------------------------------------------------- _save_to_disk
\* _save_to_disk returns to its caller p: close() for Main; for a worker the
\* rest of add_item / add_connection, i.e. the exit of the caller's own
\* "async with self.lock" (a second release(), which raises RuntimeError
\* when the lock is not held by anyone).
SaveReturn(p, l) ==
    IF p = Main
    THEN /\ lock' = Release(l)
         /\ pc' = [pc EXCEPT ![p] = "closed"]
         /\ UNCHANGED <<ret, item_id>>
    ELSE LET l1 == Release(l) IN
         /\ lock' = IF l1.owner = NoOwner THEN l1 ELSE Release(l1)
         /\ pc' = [pc EXCEPT ![p] = "idle"]
         /\ ret' = [ret EXCEPT ![p] = IF l1.owner = NoOwner THEN "RuntimeError" ELSE "ok"]
         /\ item_id' = [item_id EXCEPT ![p] = NoId]

\* line 65: open(path, "w") truncates the file, or fails and leaves it
SaveOpen(p) ==
    /\ pc[p] \in {"save_item", "save_connection", "save"}
    /\ Acquired(lock, p)
    /\ \/ /\ disk' = <<>>
          /\ pc' = [pc EXCEPT ![p] = "save_write"]
          /\ UNCHANGED <<lock, ret, item_id, saveStatus>>
       \/ /\ saveStatus' = "failed"
          /\ SaveReturn(p, lock)
          /\ UNCHANGED disk
    /\ UNCHANGED <<vectors, metadata, connections, issued, loadStatus>>
    /\ UNCHANGED frame

\* line 66: json.dump writes the next piece of the text; the last piece
\* completes the file and the function returns.  A write may fail.
SaveWrite(p) ==
    /\ pc[p] = "save_write"
    /\ LET text == JsonDump(SaveData(vectors, metadata, connections)) IN
       \/ /\ disk' = Append(disk, text[Len(disk) + 1])
          /\ IF Len(disk') = Len(text)
             THEN /\ saveStatus' = "ok"
                  /\ SaveReturn(p, lock)
             ELSE UNCHANGED <<pc, lock, ret, item_id, saveStatus>>
       \/ /\ saveStatus' = "failed"
          /\ SaveReturn(p, lock)
          /\ UNCHANGED disk
    /\ UNCHANGED <<vectors, metadata, connections, issued, loadStatus>>
    /\ UNCHANGED frame

\* ------------------------------------------------------------- add_item
\* lines 72-74: the id is drawn, then the coroutine asks for the lock
AddItemCall(t) ==
    /\ pc[Main] = "serving"
    /\ pc[t] = "idle"
    /\ \E id \in Uuid4(issued) :
          /\ item_id' = [item_id EXCEPT ![t] = id]
          /\ issued' = issued \cup {id}
    /\ lock' = Acquire(lock, t)
    /\ pc' = [pc EXCEPT ![t] = "add_item"]
    /\ ret' = [ret EXCEPT ![t] = "none"]
    /\ UNCHANGED <<vectors, metadata, connections, disk, loadStatus, saveStatus>>
    /\ UNCHANGED frame

\* lines 75-84: the three maps are updated with the caller's vector and
\* metadata, then _save_to_disk is awaited, which asks for the same lock
AddItemBody(t) ==
    /\ pc[t] = "add_item"
    /\ Acquired(lock, t)
    /\ \E l \in WorkerLists, m \in WorkerMetas, now \in WorkerClock :
          LET r == AddItem(vectors, metadata, connections, item_id[t],
                           NpArray(l), m, now) IN
          /\ vectors' = r.vectors
          /\ metadata' = r.metadata
          /\ connections' = r.connections
    /\ lock' = Acquire(lock, t)
    /\ pc' = [pc EXCEPT ![t] = "save_item"]
    /\ UNCHANGED <<item_id, ret, disk, issued, loadStatus, saveStatus>>
    /\ UNCHANGED frame

\* ------------------------------------------------------- add_connection
AddConnectionCall(t) ==
    /\ pc[Main] = "serving"
    /\ pc[t] = "idle"
    /\ TotalEdges(connections) < MaxEdges
    /\ lock' = Acquire(lock, t)
    /\ pc' = [pc EXCEPT ![t] = "add_connection"]
    /\ ret' = [ret EXCEPT ![t] = "none"]
    /\ UNCHANGED <<item_id, vectors, metadata, connections, disk, issued, loadStatus,
                   saveStatus>>
    /\ UNCHANGED frame

\* lines 91-99: ValueError for an unknown id (the lock is released on the
\* way out); else the edge is appended unless present, then the save
AddConnectionRun(t, from, to, type) ==
    /\ pc[t] = "add_connection"
    /\ Acquired(lock, t)
    /\ IF ~IdsExist(vectors, from, to)
       THEN /\ lock' = Release(lock)
            /\ pc' = [pc EXCEPT ![t] = "idle"]
            /\ ret' = [ret EXCEPT ![t] = "BothIdsMustExist"]
            /\ UNCHANGED connections
       ELSE /\ connections' = AddConnection(connections, from, to, type)
            /\ lock' = Acquire(lock, t)
            /\ pc' = [pc EXCEPT ![t] = "save_connection"]
            /\ UNCHANGED ret
    /\ UNCHANGED <<item_id, vectors, metadata, disk, issued, loadStatus, saveStatus>>
    /\ UNCHANGED frame

AddConnectionBody(t) ==
    \E from \in Ids, to \in Ids, type \in WorkerRelTypes : AddConnectionRun(t, from, to, type)

\* ------------------------------------------------------ read operations
\* search raises (from cosine_similarity) at the first stored vector whose
\* length differs from the query's; an empty store returns [] before that
SearchNeverRaises(vs, q) == FALSE

SearchRaises(vs, q) == \E i \in 1..Len(vs) : Len(ToList(vs[i].v)) # Len(ToList(q))

SearchCall(t) ==
    /\ pc[Main] = "serving"
    /\ pc[t] = "idle"
    /\ lock' = Acquire(lock, t)
    /\ pc' = [pc EXCEPT ![t] = "search"]
    /\ ret' = [ret EXCEPT ![t] = "none"]
    /\ UNCHANGED <<item_id, vectors, metadata, connections, disk, issued, loadStatus,
                   saveStatus>>
    /\ UNCHANGED frame

SearchRun(t, l) ==
    /\ pc[t] = "search"
    /\ Acquired(lock, t)
    /\ lock' = Release(lock)
    /\ pc' = [pc EXCEPT ![t] = "idle"]
    /\ ret' = [ret EXCEPT ![t] = IF SearchRaises(vectors, NpArray(l))
                                 THEN "IncompatibleDimension" ELSE "ok"]
    /\ UNCHANGED <<item_id, vectors, metadata, connections, disk, issued, loadStatus,
                   saveStatus>>
    /\ UNCHANGED frame

SearchBody(t) == \E l \in Lists : SearchRun(t, l)

GetSubgraphCall(t) ==
    /\ pc[Main] = "serving"
    /\ pc[t] = "idle"
    /\ lock' = Acquire(lock, t)
    /\ pc' = [pc EXCEPT ![t] = "get_subgraph"]
    /\ ret' = [ret EXCEPT ![t] = "none"]
    /\ UNCHANGED <<item_id, vectors, metadata, connections, disk, issued, loadStatus,
                   saveStatus>>
    /\ UNCHANGED frame

\* line 126
RootExistsAlways(vs, root) == TRUE

RootExists(vs, root) == root \in Keys(vs)

GetSubgraphRunKeepsLock(t, root) ==
    /\ pc[t] = "get_subgraph"
    /\ Acquired(lock, t)
    /\ lock' = IF RootExists(vectors, root) THEN Release(lock) ELSE lock
    /\ pc' = [pc EXCEPT ![t] = "idle"]
    /\ ret' = [ret EXCEPT ![t] = IF RootExists(vectors, root) THEN "ok" ELSE "IdNotFound"]
    /\ UNCHANGED <<item_id, vectors, metadata, connections, disk, issued, loadStatus,
                   saveStatus>>
    /\ UNCHANGED frame

GetSubgraphRun(t, root) ==
    /\ pc[t] = "get_subgraph"
    /\ Acquired(lock, t)
    /\ lock' = Release(lock)
    /\ pc' = [pc EXCEPT ![t] = "idle"]
    /\ ret' = [ret EXCEPT ![t] = IF RootExists(vectors, root) THEN "ok" ELSE "IdNotFound"]
    /\ UNCHANGED <<item_id, vectors, metadata, connections, disk, issued, loadStatus,
                   saveStatus>>
    /\ UNCHANGED frame

GetSubgraphBody(t) == \E root \in Ids : GetSubgraphRun(t, root)

GetAllMemoriesCall(t) ==
    /\ pc[Main] = "serving"
    /\ pc[t] = "idle"
    /\ lock' = Acquire(lock, t)
    /\ pc' = [pc EXCEPT ![t] = "get_all_memories"]
    /\ ret' = [ret EXCEPT ![t] = "none"]
    /\ UNCHANGED <<item_id, vectors, metadata, connections, disk, issued, loadStatus,
                   saveStatus>>
    /\ UNCHANGED frame

GetAllMemoriesBodySaves(t) ==
    /\ pc[t] = "get_all_memories"
    /\ Acquired(lock, t)
    /\ lock' = Release(lock)
    /\ pc' = [pc EXCEPT ![t] = "idle"]
    /\ ret' = [ret EXCEPT ![t] = "ok"]
    /\ disk' = JsonDump(SaveData(vectors, metadata, connections))
    /\ UNCHANGED <<item_id, vectors, metadata, connections, issued, loadStatus,
                   saveStatus>>
    /\ UNCHANGED frame

GetAllMemoriesBody(t) ==
    /\ pc[t] = "get_all_memories"
    /\ Acquired(lock, t)
    /\ lock' = Release(lock)
    /\ pc' = [pc EXCEPT ![t] = "idle"]
    /\ ret' = [ret EXCEPT ![t] = "ok"]
    /\ UNCHANGED <<item_id, vectors, metadata, connections, disk, issued, loadStatus,
                   saveStatus>>
    /\ UNCHANGED frame

\* ---------------------------------------------------------- cancellation
\* A request is cancelled while its coroutine is suspended in acquire():
\* CancelledError leaves the waiters queue and unwinds; if it unwinds
\* through an "async with self.lock" the coroutine is in, that lock is
\* released.  The caller gets no result.
Cancel(t) ==
    /\ t \in Range(lock.waiters)
    /\ LET l == [lock EXCEPT !.waiters = Remove(@, t)] IN
       lock' = IF l.owner = t THEN Release(l) ELSE l
    /\ pc' = [pc EXCEPT ![t] = "idle"]
    /\ ret' = [ret EXCEPT ![t] = "none"]
    /\ item_id' = [item_id EXCEPT ![t] = NoId]
    /\ UNCHANGED <<vectors, metadata, connections, disk, issued, loadStatus,
                   saveStatus>>
    /\ UNCHANGED frame

\* ---------------------------------------------------------- specification
SaveStep(p) ==
    \/ SaveOpen(p)
    \/ SaveWrite(p)

WorkerStep(t) ==
    \/ AddItemBody(t)
    \/ AddConnectionBody(t)
    \/ SearchBody(t)
    \/ GetSubgraphBody(t)
    \/ GetAllMemoriesBody(t)

Next ==
    \/ Initialize
    \/ LoadBody
    \/ Yield
    \/ Shutdown
    \/ Exit
    \/ Crash
    \/ \E p \in Procs : SaveOpen(p)
    \/ \E p \in Procs : SaveWrite(p)
    \/ \E t \in Workers : AddItemCall(t)
    \/ \E t \in Workers : AddItemBody(t)
    \/ \E t \in Workers : AddConnectionCall(t)
    \/ \E t \in Workers : AddConnectionBody(t)
    \/ \E t \in Workers : SearchCall(t)
    \/ \E t \in Workers : SearchBody(t)
    \/ \E t \in Workers : GetSubgraphCall(t)
    \/ \E t \in Workers : GetSubgraphBody(t)
    \/ \E t \in Workers : GetAllMemoriesCall(t)
    \/ \E t \in Workers : GetAllMemoriesBody(t)
    \/ \E t \in Workers : Cancel(t)

Spec == Init /\ [][Next]_vars

\* The event loop runs every coroutine that is ready; the callers, the
\* cancellations, the end of the lifespan and crashes are up to the
\* environment.
Fairness ==
    /\ WF_vars(Initialize)
    /\ WF_vars(LoadBody)
    /\ WF_vars(Yield)
    /\ WF_vars(Exit)
    /\ \A p \in Procs : WF_vars(SaveStep(p))
    /\ \A t \in Workers : WF_vars(WorkerStep(t))

FairSpec == Spec /\ Fairness


\* ------------------------------------------- the store used by one caller
\* DataSpec: a single caller, no crash and no I/O error.  Each step is the
\* whole effect of one operation on the maps or on the file: the update
\* add_item / add_connection make under the lock, then one complete
\* _save_to_disk (close), then _load_from_disk in a fresh VectorStore.
DataInit ==
    /\ pc = [p \in Procs |-> IF p = Main THEN "serving" ELSE "idle"]
    /\ item_id = [t \in Workers |-> NoId]
    /\ ret = [t \in Workers |-> "none"]
    /\ lock = FreeLock
    /\ vectors = <<>>
    /\ metadata = <<>>
    /\ connections = <<>>
    /\ disk = NoFile
    /\ issued = {}
    /\ loadStatus = "nofile"
    /\ saveStatus = "none"
    /\ args = NoArgs
    /\ visited = {}
    /\ queue = <<>>
    /\ result = NoResult

DataAddItemRun(id, l, m, now) ==
    /\ pc[Main] = "serving"
    /\ id \in Uuid4(issued)
    /\ LET r == AddItem(vectors, metadata, connections, id, NpArray(l), m, now) IN
       /\ vectors' = r.vectors
       /\ metadata' = r.metadata
       /\ connections' = r.connections
    /\ issued' = issued \cup {id}
    /\ UNCHANGED <<pc, item_id, ret, lock, disk, loadStatus, saveStatus>>
    /\ UNCHANGED frame

DataAddItem ==
    \E id \in Ids, l \in Lists, m \in MetaChoices, now \in Timestamps :
        DataAddItemRun(id, l, m, now)

DataAddConnection ==
    /\ pc[Main] = "serving"
    /\ TotalEdges(connections) < DataMaxEdges
    /\ \E from \in Keys(vectors), to \in Keys(vectors), type \in RelTypes :
          connections' = AddConnection(connections, from, to, type)
    /\ UNCHANGED <<pc, item_id, ret, lock, vectors, metadata, disk, issued,
                   loadStatus, saveStatus>>
    /\ UNCHANGED frame

DataSave ==
    /\ pc[Main] = "serving"
    /\ disk' = JsonDump(SaveData(vectors, metadata, connections))
    /\ saveStatus' = "ok"
    /\ pc' = [pc EXCEPT ![Main] = "closed"]
    /\ UNCHANGED <<item_id, ret, lock, vectors, metadata, connections, issued,
                   loadStatus>>
    /\ UNCHANGED frame

DataLoad ==
    /\ pc[Main] = "closed"
    /\ LET r == LoadFromDisk(disk, FALSE, <<>>, <<>>, <<>>) IN
       /\ vectors' = r.vectors
       /\ metadata' = r.metadata
       /\ connections' = r.connections
       /\ loadStatus' = IF r.raised THEN "failed" ELSE "loaded"
    /\ saveStatus' = "none"
    /\ pc' = [pc EXCEPT ![Main] = "initialized"]
    /\ UNCHANGED <<item_id, ret, lock, disk, issued>>
    /\ UNCHANGED frame

DataNext ==
    \/ DataAddItem
    \/ DataAddConnection
    \/ DataSave
    \/ DataLoad

DataSpec == DataInit /\ [][DataNext]_vars

\* ------------------------------------------- add_connection, call by call
\* EdgeSpec: a single caller adds records and connects them, with ids that
\* are or are not in the store yet.  args keeps the arguments of the last
\* add_connection call and ret the exception it raised.
EdgeAddItem ==
    /\ pc[Main] = "serving"
    /\ \E id \in Uuid4(issued) :
          LET r == AddItem(vectors, metadata, connections, id, NpArray(<<1, 0>>),
                           [text |-> "a", timestamp |-> 1], 2) IN
          /\ vectors' = r.vectors
          /\ metadata' = r.metadata
          /\ connections' = r.connections
          /\ issued' = issued \cup {id}
    /\ ret' = [ret EXCEPT ![Caller] = "none"]
    /\ args' = NoArgs
    /\ UNCHANGED <<pc, item_id, lock, disk, loadStatus, saveStatus>>
    /\ UNCHANGED <<visited, queue, result>>

\* add_connection up to its save: the ValueError of line 92, or the edge
\* list after lines 94-96
EdgeAddConnectionRun(from, to, type) ==
    /\ pc[Main] = "serving"
    /\ args' = [op |-> "add_connection", from_id |-> from, to_id |-> to,
                relation_type |-> type]
    /\ IF ~IdsExist(vectors, from, to)
       THEN /\ ret' = [ret EXCEPT ![Caller] = "BothIdsMustExist"]
            /\ UNCHANGED connections
       ELSE /\ connections' = AddConnection(connections, from, to, type)
            /\ TotalEdges(connections') <= EdgeMaxEdges
            /\ ret' = [ret EXCEPT ![Caller] = "none"]
    /\ UNCHANGED <<pc, item_id, lock, vectors, metadata, disk, issued,
                   loadStatus, saveStatus>>
    /\ UNCHANGED <<visited, queue, result>>

EdgeAddConnection ==
    \E from \in Ids, to \in Ids, type \in RelTypes : EdgeAddConnectionRun(from, to, type)

EdgeNext ==
    \/ EdgeAddItem
    \/ EdgeAddConnection

EdgeSpec == DataInit /\ [][EdgeNext]_vars

\* ------------------------------------------------ get_subgraph, stepwise
\* GraphSpec: a single caller on a store of GraphSize records.  The caller
\* first adds connections, then calls get_subgraph; the traversal is
\* followed one iteration of its while loop at a time (no other coroutine
\* runs in between: the loop holds the lock and never awaits).
\* Three records carry every shape of graph the traversal distinguishes: a
\* chain of two hops, a cycle, a self-loop, parallel edges, a diamond.
GraphIds == {1, 2, 3}
\* max_depth is any int the caller passes (memory_graph hands it on as it is)
GraphDepths == {-1, 0, 1, 2}

\* the store after add_item was called for the ids of S, least id first
RECURSIVE GraphItems(_)
GraphItems(S) ==
    IF S = {} THEN [vectors |-> <<>>, metadata |-> <<>>, connections |-> <<>>]
    ELSE LET n == CHOOSE x \in S : \A y \in S : y <= x
             s == GraphItems(S \ {n})
         IN AddItem(s.vectors, s.metadata, s.connections, n, NpArray(<<1, 0>>),
                    [text |-> "a", timestamp |-> 1], 2)

GraphInit ==
    /\ pc = [p \in Procs |-> IF p = Main THEN "serving" ELSE "idle"]
    /\ item_id = [t \in Workers |-> NoId]
    /\ ret = [t \in Workers |-> "none"]
    /\ lock = FreeLock
    /\ vectors = GraphItems(GraphIds).vectors
    /\ metadata = GraphItems(GraphIds).metadata
    /\ connections = GraphItems(GraphIds).connections
    /\ disk = NoFile
    /\ issued = GraphIds
    /\ loadStatus = "nofile"
    /\ saveStatus = "none"
    /\ args = NoArgs
    /\ visited = {}
    /\ queue = <<>>
    /\ result = NoResult

\* The relation type is payload to the traversal: the second type is drawn
\* for the pairs from < to only, which gives parallel edges on every chain.
GraphAddConnection ==
    /\ pc[Caller] = "idle"
    /\ args = NoArgs
    /\ \E from \in GraphIds, to \in GraphIds, type \in RelTypes :
          /\ type = "related" \/ from < to
          /\ IdsExist(vectors, from, to)
          /\ connections' = AddConnection(connections, from, to, type)
    /\ TotalEdges(connections') <= GraphMaxEdges
    /\ UNCHANGED <<pc, item_id, ret, lock, vectors, metadata, disk, issued,
                   loadStatus, saveStatus>>
    /\ UNCHANGED frame

\* lines 126-136: the root is looked up, then result, visited and queue are
\* created
GetSubgraphStart ==
    /\ pc[Caller] = "idle"
    /\ \E root \in GraphIds \cup {NoId}, d \in GraphDepths :
          /\ args' = [op |-> "get_subgraph", root_id |-> root, max_depth |-> d]
          /\ IF RootExists(vectors, root)
             THEN /\ result' = NoResult
                  /\ visited' = {}
                  /\ queue' = << <<root, 0>> >>
                  /\ pc' = [pc EXCEPT ![Caller] = "while_queue"]
                  /\ ret' = [ret EXCEPT ![Caller] = "none"]
             ELSE /\ result' = NoResult
                  /\ visited' = {}
                  /\ queue' = <<>>
                  /\ ret' = [ret EXCEPT ![Caller] = "IdNotFound"]
                  /\ UNCHANGED pc
    /\ UNCHANGED <<item_id, lock, vectors, metadata, connections, disk, issued,
                   loadStatus, saveStatus>>

\* line 141
SkipNodeDepthOnly(seen, node_id, depth, max_depth) == depth > max_depth

SkipNode(seen, node_id, depth, max_depth) == node_id \in seen \/ depth > max_depth

\* lines 150-159: the edges emitted for node_id
EdgesOfReversed(cs, node_id) ==
    LET es == Get(cs, node_id) IN
    [j \in 1..Len(es) |-> [from |-> es[j].to, to |-> node_id, relation |-> es[j].type]]

EdgesOf(cs, node_id) ==
    LET es == Get(cs, node_id) IN
    [j \in 1..Len(es) |-> [from |-> node_id, to |-> es[j].to, relation |-> es[j].type]]

\* lines 161-163: the queue entries appended for node_id
EnqueuedSameDepth(cs, seen, node_id, depth, max_depth) ==
    LET es == Get(cs, node_id)
        keep == SelectSeq(es, LAMBDA c : c.to \notin seen /\ depth < max_depth)
    IN [j \in 1..Len(keep) |-> <<keep[j].to, depth>>]

Enqueued(cs, seen, node_id, depth, max_depth) ==
    LET es == Get(cs, node_id)
        keep == SelectSeq(es, LAMBDA c : c.to \notin seen /\ depth < max_depth)
    IN [j \in 1..Len(keep) |-> <<keep[j].to, depth + 1>>]

\* lines 138-163: one iteration of the while loop
GetSubgraphLoop ==
    /\ pc[Caller] = "while_queue"
    /\ queue # <<>>
    /\ LET node_id == Head(queue)[1]
           depth == Head(queue)[2]
       IN IF SkipNode(visited, node_id, depth, args.max_depth)
          THEN /\ queue' = Tail(queue)
               /\ UNCHANGED <<visited, result>>
          ELSE /\ visited' = visited \cup {node_id}
               /\ result' = [nodes |-> Put(result.nodes, node_id, Get(metadata, node_id)),
                             edges |-> result.edges \o EdgesOf(connections, node_id)]
               /\ queue' = Tail(queue) \o Enqueued(connections, visited', node_id, depth,
                                                   args.max_depth)
    /\ UNCHANGED <<pc, item_id, ret, lock, vectors, metadata, connections, disk, issued,
                   loadStatus, saveStatus, args>>

\* lines 138 and 165: the queue is empty, result is returned
GetSubgraphReturn ==
    /\ pc[Caller] = "while_queue"
    /\ queue = <<>>
    /\ pc' = [pc EXCEPT ![Caller] = "idle"]
    /\ ret' = [ret EXCEPT ![Caller] = "ok"]
    /\ UNCHANGED <<item_id, lock, vectors, metadata, connections, disk, issued,
                   loadStatus, saveStatus>>
    /\ UNCHANGED frame

GraphNext ==
    \/ GraphAddConnection
    \/ GetSubgraphStart
    \/ GetSubgraphLoop
    \/ GetSubgraphReturn

GraphSpec == GraphInit /\ [][GraphNext]_vars

\* the traversal runs without suspension from its first line to its return
GraphFairSpec == GraphSpec /\ WF_vars(GetSubgraphLoop) /\ WF_vars(GetSubgraphReturn)

\* ---------------------------------------------------------------- search
\* cosine_similarity(q.reshape(1, -1), v.reshape(1, -1))[0][0]: both rows
\* are divided by their norm (a zero norm is replaced by 1, which leaves the
\* zero row as it is) and multiplied.  The float is kept as the signed
\* square of the cosine, a fraction in lowest terms: in exact arithmetic it
\* has the order and the equalities of the cosine itself.
RECURSIVE Dot(_, _)
Dot(a, b) == IF a = <<>> THEN 0 ELSE a[1] * b[1] + Dot(Tail(a), Tail(b))

RECURSIVE Gcd(_, _)
Gcd(a, b) == IF b = 0 THEN a ELSE Gcd(b, a % b)

Fraction(n, d) ==
    LET g == Gcd(IF n < 0 THEN -n ELSE n, d) IN [num |-> n \div g, den |-> d \div g]

CosineNaN(q, v) ==
    LET d == Dot(q, v) IN
    IF Dot(q, q) = 0 \/ Dot(v, v) = 0 THEN [num |-> 0, den |-> 0]
    ELSE Fraction(IF d < 0 THEN -(d * d) ELSE d * d, Dot(q, q) * Dot(v, v))

Cosine(q, v) ==
    LET d == Dot(q, v) IN
    IF Dot(q, q) = 0 \/ Dot(v, v) = 0 THEN [num |-> 0, den |-> 1]
    ELSE Fraction(IF d < 0 THEN -(d * d) ELSE d * d, Dot(q, q) * Dot(v, v))

ScoreGeq(a, b) == a.num * b.den >= b.num * a.den

\* results.sort(key=lambda x: x[1], reverse=True): a stable sort, entries
\* with equal scores keep the order they had in results.  One entry is
\* put behind every entry whose score is not smaller.
InsertByScoreFirst(sorted, x) ==
    LET n == Cardinality({i \in 1..Len(sorted) :
                             ScoreGeq(sorted[i][2], x[2]) /\ ~ScoreGeq(x[2], sorted[i][2])})
    IN SubSeq(sorted, 1, n) \o <<x>> \o SubSeq(sorted, n + 1, Len(sorted))

InsertByScore(sorted, x) ==
    LET n == Cardinality({i \in 1..Len(sorted) : ScoreGeq(sorted[i][2], x[2])})
    IN SubSeq(sorted, 1, n) \o <<x>> \o SubSeq(sorted, n + 1, Len(sorted))

\* the sorted list, built entry by entry in the order of results
RECURSIVE SortByScore(_)
SortByScore(results) ==
    IF results = <<>> THEN <<>>
    ELSE InsertByScore(SortByScore(SubSeq(results, 1, Len(results) - 1)),
                       results[Len(results)])

\* s[start:stop] of a Python list
PySliceShort(s, start, stop) ==
    LET n == Len(s)
        a == IF start < 0 THEN (IF n + start < 0 THEN 0 ELSE n + start)
             ELSE (IF start > n THEN n ELSE start)
        b == IF stop < 0 THEN (IF n + stop < 0 THEN 0 ELSE n + stop)
             ELSE (IF stop > n THEN n ELSE stop)
    IN SubSeq(s, a + 1, b - 1)

PySlice(s, start, stop) ==
    LET n == Len(s)
        a == IF start < 0 THEN (IF n + start < 0 THEN 0 ELSE n + start)
             ELSE (IF start > n THEN n ELSE start)
        b == IF stop < 0 THEN (IF n + stop < 0 THEN 0 ELSE n + stop)
             ELSE (IF stop > n THEN n ELSE stop)
    IN SubSeq(s, a + 1, b)

\* lines 104-121, for a query that fits the stored vectors
Search(vs, ms, q, top_k) ==
    IF vs = <<>> THEN <<>>
    ELSE LET results == [i \in 1..Len(vs) |->
                            <<vs[i].k, Cosine(ToList(q), ToList(vs[i].v)), Get(ms, vs[i].k)>>]
         IN PySlice(SortByScore(results), 0, top_k)

\* SearchSpec: a single caller adds records whose vectors point in several
\* directions (the zero vector among them) and searches.
SearchVectors == {<<1, 0>>, <<0, 1>>, <<1, 1>>, <<0, 0>>}
SearchIds == 1..SearchMaxItems
TopKs == 0..(SearchMaxItems + 1)

SearchAddItem ==
    /\ pc[Main] = "serving"
    /\ SearchIds \ issued # {}
    /\ \E l \in SearchVectors :
          LET id == Min(SearchIds \ issued)
              r == AddItem(vectors, metadata, connections, id, NpArray(l),
                           [text |-> "a", timestamp |-> 1], 2) IN
          /\ vectors' = r.vectors
          /\ metadata' = r.metadata
          /\ connections' = r.connections
          /\ issued' = issued \cup {id}
    /\ ret' = [ret EXCEPT ![Caller] = "none"]
    /\ args' = NoArgs
    /\ result' = NoResult
    /\ UNCHANGED <<pc, item_id, lock, disk, loadStatus, saveStatus, visited, queue>>

SearchOnce(l, k) ==
    /\ pc[Main] = "serving"
    /\ args' = [op |-> "search", query_vector |-> l, top_k |-> k]
    /\ IF vectors # <<>> /\ SearchRaises(vectors, NpArray(l))
       THEN /\ ret' = [ret EXCEPT ![Caller] = "IncompatibleDimension"]
            /\ result' = NoResult
       ELSE /\ ret' = [ret EXCEPT ![Caller] = "ok"]
            /\ result' = Search(vectors, metadata, NpArray(l), k)
    /\ UNCHANGED <<pc, item_id, lock, vectors, metadata, connections, disk, issued,
                   loadStatus, saveStatus, visited, queue>>

SearchAny == \E l \in SearchVectors, k \in TopKs : SearchOnce(l, k)

SearchNext ==
    \/ SearchAddItem
    \/ SearchAny

SearchSpec == DataInit /\ [][SearchNext]_vars

\* ------------------------------------------------------ get_all_memories
\* x["metadata"].get("timestamp", ""): timestamps are the numbers 1, 2, ...
\* and the empty string is 0, below all of them
TsKey(meta) == IF "timestamp" \in DOMAIN meta THEN meta.timestamp ELSE 0

\* all_memories.sort(key=..., reverse=True): stable, as in search
InsertByTimestampAsc(sorted, x) ==
    LET n == Cardinality({i \in 1..Len(sorted) :
                             TsKey(sorted[i].metadata) <= TsKey(x.metadata)})
    IN SubSeq(sorted, 1, n) \o <<x>> \o SubSeq(sorted, n + 1, Len(sorted))

InsertByTimestamp(sorted, x) ==
    LET n == Cardinality({i \in 1..Len(sorted) :
                             TsKey(sorted[i].metadata) >= TsKey(x.metadata)})
    IN SubSeq(sorted, 1, n) \o <<x>> \o SubSeq(sorted, n + 1, Len(sorted))

\* the sorted list, built entry by entry in the order of all_memories
RECURSIVE SortByTimestamp(_)
SortByTimestamp(all) ==
    IF all = <<>> THEN <<>>
    ELSE InsertByTimestamp(SortByTimestamp(SubSeq(all, 1, Len(all) - 1)), all[Len(all)])

\* line 188: all_memories[offset:offset+limit]
PageSliceOverlap(sorted, limit, offset) ==
    PySlice(sorted, IF offset > 0 THEN offset - 1 ELSE 0, offset + limit)

PageSlice(sorted, limit, offset) == PySlice(sorted, offset, offset + limit)

\* lines 171-188
GetAllMemories(ms, cs, limit, offset) ==
    LET all_memories == [i \in 1..Len(ms) |->
                            [id |-> ms[i].k, metadata |-> ms[i].v,
                             connections |-> Len(Get(cs, ms[i].k))]]
    IN PageSlice(SortByTimestamp(all_memories), limit, offset)

\* PageSpec: a single caller adds records with timestamps of its own, adds
\* connections and lists pages.  The store starts empty or loaded from a
\* snapshot holding a record without timestamp.
OldSnapshot ==
    JsonDump(<< [k |-> "vectors", v |-> <<OldEntry>>],
                [k |-> "metadata", v |-> <<[k |-> 0, v |-> [text |-> "a"]]>>],
                [k |-> "connections", v |-> <<[k |-> 0, v |-> <<>>]>>] >>)
PageIds == 1..PageMaxItems
PageMetas == {[text |-> "a", timestamp |-> 1], [text |-> "a", timestamp |-> 2]}
Limits == 0..3
Offsets == 0..(PageMaxItems + 1)

PageInit ==
    /\ pc = [p \in Procs |-> IF p = Main THEN "serving" ELSE "idle"]
    /\ item_id = [t \in Workers |-> NoId]
    /\ ret = [t \in Workers |-> "none"]
    /\ lock = FreeLock
    /\ disk \in {NoFile, OldSnapshot}
    /\ LET r == LoadFromDisk(disk, FALSE, <<>>, <<>>, <<>>) IN
       /\ vectors = r.vectors
       /\ metadata = r.metadata
       /\ connections = r.connections
       /\ loadStatus = IF disk = NoFile THEN "nofile" ELSE "loaded"
    /\ issued = {}
    /\ saveStatus = "none"
    /\ args = NoArgs
    /\ visited = {}
    /\ queue = <<>>
    /\ result = NoResult

PageAddItem ==
    /\ pc[Main] = "serving"
    /\ PageIds \ issued # {}
    /\ \E m \in PageMetas :
          LET id == Min(PageIds \ issued)
              r == AddItem(vectors, metadata, connections, id, NpArray(<<1, 0>>), m, 2) IN
          /\ vectors' = r.vectors
          /\ metadata' = r.metadata
          /\ connections' = r.connections
          /\ issued' = issued \cup {id}
    /\ ret' = [ret EXCEPT ![Caller] = "none"]
    /\ args' = NoArgs
    /\ result' = NoResult
    /\ UNCHANGED <<pc, item_id, lock, disk, loadStatus, saveStatus, visited, queue>>

\* connections to the oldest record, which give the records edge counts
PageAddConnection ==
    /\ pc[Main] = "serving"
    /\ vectors # <<>>
    /\ \E from \in Keys(vectors) :
          /\ IdsExist(vectors, from, vectors[1].k)
          /\ connections' = AddConnection(connections, from, vectors[1].k, "related")
    /\ TotalEdges(connections') <= PageMaxEdges
    /\ ret' = [ret EXCEPT ![Caller] = "none"]
    /\ args' = NoArgs
    /\ result' = NoResult
    /\ UNCHANGED <<pc, item_id, lock, vectors, metadata, disk, issued, loadStatus,
                   saveStatus, visited, queue>>

GetAllMemoriesOnce(limit, offset) ==
    /\ pc[Main] = "serving"
    /\ args' = [op |-> "get_all_memories", limit |-> limit, offset |-> offset]
    /\ ret' = [ret EXCEPT ![Caller] = "ok"]
    /\ result' = GetAllMemories(metadata, connections, limit, offset)
    /\ UNCHANGED <<pc, item_id, lock, vectors, metadata, connections, disk, issued,
                   loadStatus, saveStatus, visited, queue>>

GetAllMemoriesAny == \E limit \in Limits, offset \in Offsets : GetAllMemoriesOnce(limit, offset)

PageNext ==
    \/ PageAddItem
    \/ PageAddConnection
    \/ GetAllMemoriesAny

PageSpec == PageInit /\ [][PageNext]_vars

\* ------------------------------------------------- initialize, once more
\* ReloadSpec: a single caller adds records and connections, saves the store
\* (close) and calls initialize() on the same VectorStore, whose maps then
\* hold whatever was added since the save.
ReloadAddConnection ==
    /\ pc[Main] = "serving"
    /\ TotalEdges(connections) < ReloadMaxEdges
    /\ \E from \in Keys(vectors), to \in Keys(vectors) :
          /\ IdsExist(vectors, from, to)
          /\ connections' = AddConnection(connections, from, to, "related")
    /\ args' = NoArgs
    /\ UNCHANGED <<pc, item_id, ret, lock, vectors, metadata, disk, issued,
                   loadStatus, saveStatus>>
    /\ UNCHANGED <<visited, queue, result>>

\* close(): one complete _save_to_disk
ReloadSave ==
    /\ pc[Main] = "serving"
    /\ disk' = JsonDump(SaveData(vectors, metadata, connections))
    /\ saveStatus' = "ok"
    /\ args' = NoArgs
    /\ UNCHANGED <<pc, item_id, ret, lock, vectors, metadata, connections, issued,
                   loadStatus>>
    /\ UNCHANGED <<visited, queue, result>>

\* initialize(), lines 25-26: the file exists and is loaded; the read may fail
Reinitialize ==
    /\ pc[Main] = "serving"
    /\ disk # NoFile
    /\ \E ioerr \in BOOLEAN :
          LET r == LoadFromDisk(disk, ioerr, vectors, metadata, connections) IN
          /\ vectors' = r.vectors
          /\ metadata' = r.metadata
          /\ connections' = r.connections
          /\ loadStatus' = IF r.raised THEN "failed" ELSE "loaded"
    /\ args' = [op |-> "initialize"]
    /\ UNCHANGED <<pc, item_id, ret, lock, disk, issued, saveStatus>>
    /\ UNCHANGED <<visited, queue, result>>

ReloadNext ==
    \/ EdgeAddItem
    \/ ReloadAddConnection
    \/ ReloadSave
    \/ Reinitialize

ReloadSpec == DataInit /\ [][ReloadNext]_vars

\* ================================================================ claims
InCS(p) ==
    \/ pc[p] \in {"save_item", "save_connection", "save_write"}
    \/ p = Main /\ pc[p] = "load"
Waiting(p) == p \in Range(lock.waiters) /\ pc[p] \notin {"save_item", "save_connection"}
Persisted == disk = JsonDump(SaveData(vectors, metadata, connections))
Gone(p) == pc[p] \in {"idle", "closed", "down"}

\* C1: an add_item or add_connection call that has acquired the lock and
\* updated the maps eventually completes its save and returns.
C1_MutationReturns ==
    \A t \in Workers : (pc[t] \in {"save_item", "save_connection"}) ~> (pc[t] = "idle")

\* C2: at most one coroutine is inside a critical section of the store
\* (holding the lock between two awaits) in any reachable state.
C2_MutualExclusion == Cardinality({p \in Procs : InCS(p)}) <= 1

C2_Witness ==
    \E p \in Procs, q \in Procs : p # q /\ InCS(p) /\ q \in Range(lock.waiters)

\* C3: every operation that starts waiting for the lock eventually gets it
\* and returns.
C3_StarvationFree ==
    \A p \in Procs : Waiting(p) ~> Gone(p)

C5_CrashConsistent ==
    pc[Main] = "down" => (disk = NoFile \/ JsonValid(disk))

C7_LoadFailureEmpty ==
    (pc[Main] = "initialized" /\ loadStatus # "loaded")
        => (vectors = <<>> /\ metadata = <<>> /\ connections = <<>> /\ lock = FreeLock)

C7_Witness ==
    /\ pc[Main] = "initialized"
    /\ loadStatus = "failed"
    /\ disk = CorruptNoConnections

\* C8: once the lifespan ends, close() completes, and when it has completed
\* without a write error the file equals the store.
C8_ShutdownFlush ==
    /\ (pc[Main] \in {"save", "save_write"}) ~> (pc[Main] \in {"closed", "down"})
    /\ []((pc[Main] = "closed" /\ saveStatus = "ok") => Persisted)

\* C9: the id of an add_item about to insert is not a key of the store, not
\* a key of the snapshot on disk and not the id of another running call.
DiskIds(file) ==
    LET r == TryLoad(file, FALSE, <<>>, <<>>, <<>>) IN Keys(r.vectors)

C9_IdsUnique ==
    \A t \in Workers :
        pc[t] = "add_item" =>
            /\ item_id[t] \notin Keys(vectors)
            /\ item_id[t] \notin DiskIds(disk)
            /\ \A u \in Workers \ {t} : item_id[u] # item_id[t]

C9_Witness ==
    /\ loadStatus = "loaded"
    /\ Len(vectors) = 2
    /\ \E t \in Workers : pc[t] = "save_item" /\ item_id[t] = vectors[2].k

\* C10: whenever the lock is free the three maps have the same keys, and so
\* have the three maps of every snapshot on disk that loads.
SameKeys(vs, ms, cs) == Keys(vs) = Keys(ms) /\ Keys(ms) = Keys(cs)

C10_KeySets ==
    /\ lock.owner = NoOwner => SameKeys(vectors, metadata, connections)
    /\ LET r == TryLoad(disk, FALSE, <<>>, <<>>, <<>>) IN
       ~r.raised => SameKeys(r.vectors, r.metadata, r.connections)

C10_Witness ==
    /\ pc[Main] = "initialized"
    /\ loadStatus = "loaded"
    /\ lock.owner = NoOwner
    /\ Len(vectors) >= 1

\* C11: once the store holds a record, an add_item whose vector has another
\* length than the first record's creates no record: the three maps stay
\* as they were.
Dim(vs) == Len(ToList(vs[1].v))

C11_DimensionEnforced ==
    [][\A id \in Ids, l \in Lists, m \in MetaChoices, now \in Timestamps :
          (DataAddItemRun(id, l, m, now) /\ vectors # <<>> /\ Len(l) # Dim(vectors))
              => UNCHANGED <<vectors, metadata, connections>>]_vars

\* C12: all vectors held by the store have the same length.
C12_UniformDimension ==
    \A i \in 1..Len(vectors), j \in 1..Len(vectors) :
        Len(ToList(vectors[i].v)) = Len(ToList(vectors[j].v))

\* C13: a search whose query has another length than the stored vectors
\* raises to the caller: no list is returned, the maps and the file stay
\* as they were and the lock is no longer held by the call.
C13_SearchDimension ==
    [][\A t \in Workers, l \in Lists :
          (SearchRun(t, l) /\ vectors # <<>> /\ Len(l) # Dim(vectors))
              => /\ ret'[t] = "IncompatibleDimension"
                 /\ pc'[t] = "idle"
                 /\ UNCHANGED <<vectors, metadata, connections, disk, result>>
                 /\ lock'.owner # t
                 /\ t \notin Range(lock'.waiters)]_vars

C13_Witness ==
    \E t \in Workers :
        /\ pc[t] = "idle"
        /\ ret[t] = "IncompatibleDimension"
        /\ vectors # <<>>
        /\ lock = FreeLock

\* C14: add_connection with a from or to id that is not in the store raises
\* and records no edge: the maps and the file stay as they were.
C14_ConnectionNotFound ==
    [][\A t \in Workers, from \in Ids, to \in Ids, type \in WorkerRelTypes :
          (AddConnectionRun(t, from, to, type)
               /\ (from \notin Keys(vectors) \/ to \notin Keys(vectors)))
              => /\ ret'[t] = "BothIdsMustExist"
                 /\ pc'[t] = "idle"
                 /\ UNCHANGED <<vectors, metadata, connections, disk>>]_vars

C14_Witness ==
    \E t \in Workers :
        /\ pc[t] = "idle"
        /\ ret[t] = "BothIdsMustExist"
        /\ Len(vectors) >= 1
        /\ TotalEdges(connections) = 0

\* C15: the source and the target of every stored edge are ids of records
\* in the store.
EdgesResolve(vs, cs) ==
    \A i \in 1..Len(cs) :
        /\ cs[i].k \in Keys(vs)
        /\ \A j \in 1..Len(cs[i].v) : cs[i].v[j].to \in Keys(vs)

C15_ReferentialIntegrity == EdgesResolve(vectors, connections)

C15_Witness ==
    /\ args.op = "add_connection"
    /\ TotalEdges(connections) = EdgeMaxEdges
    /\ \E i \in 1..Len(connections) :
          \E j \in 1..Len(connections[i].v) : connections[i].v[j].to # connections[i].k

\* C16: no edge list ever holds the same (to, type) pair twice, and an
\* add_connection for an edge that is already there changes nothing and
\* raises nothing.
NoDuplicateEdges(cs) ==
    \A i \in 1..Len(cs) :
        \A a \in 1..Len(cs[i].v), b \in 1..Len(cs[i].v) :
            cs[i].v[a] = cs[i].v[b] => a = b

C16_IdempotentEdges ==
    /\ []NoDuplicateEdges(connections)
    /\ [][\A from \in Ids, to \in Ids, type \in RelTypes :
            (/\ EdgeAddConnectionRun(from, to, type)
             /\ IdsExist(vectors, from, to)
             /\ [to |-> to, type |-> type] \in Range(Get(connections, from)))
                => (connections' = connections /\ ret'[Caller] = "none")]_vars

C16_Witness ==
    /\ args.op = "add_connection"
    /\ ret[Caller] = "none"
    /\ IdsExist(vectors, args.from_id, args.to_id)
    /\ LET es == Get(connections, args.from_id) IN
       /\ Len(es) = 2
       /\ es[1] = [to |-> args.to_id, type |-> args.relation_type]

\* C17: every record has a timestamp in its metadata; add_item stores the
\* caller's metadata with all its values (its timestamp included) and adds
\* only a timestamp when the caller brought none.
C17_TimestampPresence ==
    /\ [](\A i \in 1..Len(metadata) : "timestamp" \in DOMAIN metadata[i].v)
    /\ [][\A id \in Ids, l \in Lists, m \in MetaChoices, now \in Timestamps :
            DataAddItemRun(id, l, m, now) =>
                LET stored == Get(metadata', id) IN
                /\ DOMAIN stored = DOMAIN m \cup {"timestamp"}
                /\ \A x \in DOMAIN m : stored[x] = m[x]]_vars

C17_Witness ==
    /\ loadStatus = "nofile"
    /\ Len(metadata) = 2
    /\ \E i \in 1..2, j \in 1..2 :
          /\ metadata[i].v.timestamp \in Timestamps
          /\ metadata[j].v.timestamp \notin Timestamps

\* C18: get_subgraph with a root that is not in the store raises: no
\* subgraph is returned, the maps and the file stay as they were and the
\* lock is no longer held by the call.
C18_SubgraphNotFound ==
    [][\A t \in Workers, root \in Ids :
          (GetSubgraphRun(t, root) /\ root \notin Keys(vectors))
              => /\ ret'[t] = "IdNotFound"
                 /\ pc'[t] = "idle"
                 /\ UNCHANGED <<vectors, metadata, connections, disk, result>>
                 /\ lock'.owner # t
                 /\ t \notin Range(lock'.waiters)]_vars

C18_Witness ==
    \E t \in Workers :
        /\ pc[t] = "idle"
        /\ ret[t] = "IdNotFound"
        /\ lock = FreeLock

\* C19: a get_subgraph that returned emitted only edges whose two ends are
\* among the returned nodes, and with max_depth 0 it returned the root alone
\* and no edge.
Returned == pc[Caller] = "idle" /\ ret[Caller] = "ok" /\ args.op = "get_subgraph"

C19_EdgeBound ==
    Returned =>
        /\ \A e \in Range(result.edges) :
              e.from \in Keys(result.nodes) /\ e.to \in Keys(result.nodes)
        /\ args.max_depth = 0 =>
              (Keys(result.nodes) = {args.root_id} /\ result.edges = <<>>)

\* C20: every get_subgraph call returns, on every stored graph and depth;
\* while it runs no node has its edge list emitted more than once and the
\* queue never holds more entries than the graph has edges, plus the root.
EmittedFrom(n) == SelectSeq(result.edges, LAMBDA e : e.from = n)

C20_Terminates ==
    /\ (pc[Caller] = "while_queue") ~> Returned
    /\ [](\A n \in Keys(vectors) : Len(EmittedFrom(n)) <= Len(Get(connections, n)))
    /\ [](Len(queue) <= TotalEdges(connections) + 1)

C20_Witness ==
    /\ Returned
    /\ args.max_depth = 2
    /\ Cardinality(visited) >= 2
    /\ \E e \in Range(result.edges) : e.from = e.to
    /\ \E e \in Range(result.edges), f \in Range(result.edges) :
          e.from = f.from /\ e.to = f.to /\ e.relation # f.relation /\ e.from # e.to

\* C21: the list search returns is in non-increasing order of score, records
\* of equal score in the order of their insertion; a record left out has no
\* higher score than a returned one and, at equal score, was inserted later.
\* (The list is therefore determined by the store and the query.)
SearchReturned == args.op = "search" /\ ret[Caller] = "ok"
Pos(id) == CHOOSE i \in 1..Len(vectors) : vectors[i].k = id
SameScore(a, b) == a.num * b.den = b.num * a.den
ResultIds == {result[i][1] : i \in 1..Len(result)}

C21_SearchOrder ==
    SearchReturned =>
        /\ \A i \in 1..Len(result), j \in 1..Len(result) :
              i < j => /\ ScoreGeq(result[i][2], result[j][2])
                       /\ SameScore(result[i][2], result[j][2])
                             => Pos(result[i][1]) < Pos(result[j][1])
        /\ \A i \in 1..Len(result), m \in 1..Len(vectors) :
              vectors[m].k \notin ResultIds =>
                  LET c == Cosine(args.query_vector, ToList(vectors[m].v)) IN
                  /\ ScoreGeq(result[i][2], c)
                  /\ SameScore(result[i][2], c) => Pos(result[i][1]) < m

C21_Witness ==
    /\ SearchReturned
    /\ Len(result) = 2
    /\ Len(vectors) = 3
    /\ SameScore(result[1][2], result[2][2])
    /\ SameScore(result[2][2], Cosine(args.query_vector, ToList(vectors[3].v)))
    /\ result[1][2].num > 0

\* C22: search returns min(top_k, n) entries for a store of n records, each
\* a different record of the store with its metadata: all n records when
\* top_k >= n, and the empty list for the empty store.
C22_SearchSize ==
    SearchReturned =>
        /\ Len(result) = (IF args.top_k < Len(vectors) THEN args.top_k ELSE Len(vectors))
        /\ Cardinality(ResultIds) = Len(result)
        /\ ResultIds \subseteq Keys(vectors)
        /\ \A i \in 1..Len(result) : result[i][3] = Get(metadata, result[i][1])

C22_Witness ==
    /\ SearchReturned
    /\ args.top_k > Len(vectors)
    /\ Len(vectors) >= 2
    /\ ResultIds = Keys(vectors)

\* C23: the score of a returned record is the cosine of the query and the
\* record's vector (here: its signed square), a number also when one of the
\* two is the zero vector, and then 0.  With records [1,0], [0,1], [1,1]
\* the search for [1,0] with top_k 2 returns the first record with score 1,
\* then the third with cosine squared 1/2.
C23_SearchScore ==
    SearchReturned =>
        /\ \A i \in 1..Len(result) :
              LET q == args.query_vector
                  v == ToList(Get(vectors, result[i][1]))
                  d == Dot(q, v)
                  sc == result[i][2]
              IN /\ sc.den > 0
                 /\ IF Dot(q, q) = 0 \/ Dot(v, v) = 0 THEN sc.num = 0
                    ELSE sc.num * Dot(q, q) * Dot(v, v)
                             = sc.den * (IF d < 0 THEN -(d * d) ELSE d * d)
        /\ (/\ Len(vectors) = 3
            /\ ToList(vectors[1].v) = <<1, 0>>
            /\ ToList(vectors[2].v) = <<0, 1>>
            /\ ToList(vectors[3].v) = <<1, 1>>
            /\ args.query_vector = <<1, 0>>
            /\ args.top_k = 2)
               => result = << <<vectors[1].k, [num |-> 1, den |-> 1], metadata[1].v>>,
                              <<vectors[3].k, [num |-> 1, den |-> 2], metadata[3].v>> >>

C23_Witness ==
    /\ SearchReturned
    /\ Len(vectors) = 3
    /\ ToList(vectors[1].v) = <<1, 0>>
    /\ ToList(vectors[2].v) = <<0, 1>>
    /\ ToList(vectors[3].v) = <<1, 1>>
    /\ args.query_vector = <<1, 0>>
    /\ args.top_k = 2
    /\ Len(result) = 2

\* C24: the page get_all_memories returns has min(limit, n - offset)
\* entries (none when offset >= n); the entry at place p carries a record's
\* id, metadata and number of edges and is at rank offset + p by timestamp,
\* newest first, a record without timestamp ranking below all others.
PageReturned == args.op = "get_all_memories" /\ ret[Caller] = "ok"
Newer(meta) == {i \in 1..Len(metadata) : TsKey(metadata[i].v) > TsKey(meta)}
NotOlder(meta) == {i \in 1..Len(metadata) : TsKey(metadata[i].v) >= TsKey(meta)}
PageIdsOf(page) == {page[i].id : i \in 1..Len(page)}

C24_PageContent ==
    PageReturned =>
        LET n == Len(metadata)
            rest == IF args.offset >= n THEN 0 ELSE n - args.offset
        IN /\ Len(result) = (IF args.limit < rest THEN args.limit ELSE rest)
           /\ Cardinality(PageIdsOf(result)) = Len(result)
           /\ \A p \in 1..Len(result) :
                 LET e == result[p] IN
                 /\ e.id \in Keys(metadata)
                 /\ e.metadata = Get(metadata, e.id)
                 /\ e.connections = Len(Get(connections, e.id))
                 /\ Cardinality(Newer(e.metadata)) <= args.offset + p - 1
                 /\ Cardinality(NotOlder(e.metadata)) >= args.offset + p

C24_Witness ==
    /\ PageReturned
    /\ args.offset >= 1
    /\ Len(result) >= 2
    /\ "timestamp" \notin DOMAIN result[Len(result)].metadata
    /\ \E p \in 1..Len(result) : result[p].connections >= 1
    /\ \E p \in 1..Len(result) : TsKey(result[p].metadata) # TsKey(result[1].metadata)

\* C25: the page that follows the returned one on the unchanged store shares
\* no id with it, and the two together are the page of twice the size: the
\* pages are pieces of one ordering, also among equal timestamps.  Pages
\* (2, 0) and (2, 2) together hold the 4 most recent records.
C25_PageStability ==
    PageReturned =>
        LET next == GetAllMemories(metadata, connections, args.limit,
                                   args.offset + args.limit)
            both == result \o next
        IN /\ PageIdsOf(result) \cap PageIdsOf(next) = {}
           /\ Cardinality(PageIdsOf(both)) = Len(both)
           /\ both = GetAllMemories(metadata, connections, 2 * args.limit, args.offset)
           /\ \A i \in 1..Len(both), j \in 1..Len(both) :
                 i < j => TsKey(both[i].metadata) >= TsKey(both[j].metadata)
           /\ (args.limit = 2 /\ args.offset = 0 /\ Len(metadata) >= 4) =>
                 /\ Len(both) = 4
                 /\ \A i \in 1..Len(metadata) :
                       metadata[i].k \notin PageIdsOf(both) =>
                           \A j \in 1..4 : TsKey(metadata[i].v) <= TsKey(both[j].metadata)

C25_Witness ==
    /\ PageReturned
    /\ args.limit = 2
    /\ args.offset = 0
    /\ Len(metadata) >= 4
    /\ Len(result) = 2
    /\ Cardinality({i \in 1..Len(metadata) : TsKey(metadata[i].v) = 2}) >= 3

\* C26: a call cancelled while it waits for the lock leaves no trace: no
\* record of its own in the store, the maps and the file as they were, and
\* the lock as it was but for the caller's place in the queue.
C26_SafeCancel ==
    [][\A t \in Workers :
          Cancel(t) =>
              /\ item_id[t] \notin Keys(vectors')
              /\ UNCHANGED <<vectors, metadata, connections, disk>>
              /\ lock' = [lock EXCEPT !.waiters = Remove(@, t)]]_vars

\* C27: an add_item or add_connection that has changed the maps gives up
\* the lock only by returning normally, its save done; the end of the
\* process apart.
C27_AllOrNothing ==
    [][\A t \in Workers :
          (/\ pc[t] \in {"save_item", "save_connection", "save_write"}
           /\ lock.owner = t
           /\ lock'.owner # t
           /\ pc'[Main] # "down")
          => (pc'[t] = "idle" /\ ret'[t] = "ok")]_vars

\* C28: a _save_to_disk whose write fails leaves its caller with an outcome
\* other than that of a call that succeeded.
SavePcs == {"save_item", "save_connection", "save", "save_write"}
CallerOutcome(p) == IF p = Main THEN pc[Main] ELSE ret[p]

ReadPcs == {"search", "get_subgraph", "get_all_memories"}

C29_ReadsPure ==
    [][\A t \in Workers :
          (/\ pc[t] \in ReadPcs \/ pc'[t] \in ReadPcs
           /\ pc'[t] # pc[t]
           /\ pc'[Main] # "down")
          => UNCHANGED <<vectors, metadata, connections, disk>>]_vars

C29_Witness ==
    \E t \in Workers, u \in Workers :
        /\ ret[t] = "IncompatibleDimension"
        /\ ret[u] = "IdNotFound"
        /\ pc[t] = "idle"
        /\ pc[u] = "idle"
        /\ vectors # <<>>

\* C30: the body of add_item puts the record in the store with an empty
\* edge list; while the process lives no record leaves the store and an
\* edge list changes only in an add_connection; and a search, get_subgraph
\* or get_all_memories that runs under the lock finds every record of the store:
\* a valid root, listed, and scored by every search that does not raise.
C30_ReadYourWrites ==
    [][/\ \A t \in Workers :
             (pc[t] = "add_item" /\ pc'[t] = "save_item") =>
                 /\ item_id[t] \in Keys(vectors')
                 /\ Get(connections', item_id[t]) = <<>>
       /\ (pc'[Main] # "down" /\ <<vectors, connections>>' # <<vectors, connections>>) =>
             \A id \in Keys(vectors) :
                 /\ id \in Keys(vectors')
                 /\ Get(connections', id) # Get(connections, id) =>
                        \E t \in Workers : pc[t] = "add_connection" /\ Acquired(lock, t)
       /\ \A t \in Workers :
             (pc[t] \in ReadPcs /\ Acquired(lock, t) /\ pc'[t] = "idle") =>
                 /\ pc[t] = "get_subgraph" =>
                       \A id \in Keys(vectors) : RootExists(vectors, id)
                 /\ pc[t] = "get_all_memories" =>
                       Keys(vectors) \subseteq
                           PageIdsOf(GetAllMemories(metadata, connections, Len(metadata), 0))
                 /\ pc[t] = "search" =>
                       \A l \in Lists :
                           ~SearchRaises(vectors, NpArray(l)) =>
                               LET found == Search(vectors, metadata, NpArray(l),
                                                   Len(vectors))
                               IN Keys(vectors) \subseteq {found[i][1] : i \in 1..Len(found)}]_vars

C30_Witness ==
    /\ loadStatus = "nofile"
    /\ vectors # <<>>
    /\ Get(connections, vectors[1].k) = <<>>
    /\ \E t \in Workers : pc[t] \in ReadPcs /\ Acquired(lock, t)

\* C31: every step keeps the records in place (same ids, vectors and
\* metadata, in the same order) and every edge list as a prefix of what it
\* becomes; add_item leaves the edge lists of the records it found as they
\* were; add_connection(a, b, r) changes nothing but the edge list of a,
\* which stays as it was or gets the edge (b, r) at its end.
IsPrefix(a, b) == Len(a) <= Len(b) /\ SubSeq(b, 1, Len(a)) = a

C31_Monotonic ==
    [][/\ IsPrefix(vectors, vectors')
       /\ IsPrefix(metadata, metadata')
       /\ Len(connections) <= Len(connections')
       /\ \A i \in 1..Len(connections) :
             /\ connections'[i].k = connections[i].k
             /\ IsPrefix(connections[i].v, connections'[i].v)
       /\ args'.op = "none" => IsPrefix(connections, connections')
       /\ args'.op = "add_connection" =>
             /\ vectors' = vectors
             /\ metadata' = metadata
             /\ Len(connections') = Len(connections)
             /\ \A i \in 1..Len(connections) :
                   IF connections[i].k = args'.from_id
                   THEN connections'[i].v \in
                            {connections[i].v,
                             Append(connections[i].v, [to |-> args'.to_id,
                                                       type |-> args'.relation_type])}
                   ELSE connections'[i].v = connections[i].v]_vars

C31_Witness ==
    /\ args.op = "add_connection"
    /\ ret[Caller] = "none"
    /\ Len(vectors) = 2
    /\ \E i \in 1..Len(connections) :
          /\ connections[i].k = args.from_id
          /\ Len(connections[i].v) = 2
          /\ connections[i].v[2] = [to |-> args.to_id, type |-> args.relation_type]

\* C32: a get_subgraph(root, d) that returned holds exactly the nodes at
\* most d hops from the root along stored edges, the root always among them.
Successors(S) == {e.to : e \in UNION {Range(Get(connections, n)) : n \in S}}

RECURSIVE Within(_, _)
Within(root, d) ==
    IF d < 0 THEN {}
    ELSE IF d = 0 THEN {root}
    ELSE LET W == Within(root, d - 1) IN W \cup Successors(W)

C32_NodeSetRootAlways ==
    Returned =>
        /\ Keys(result.nodes) = Within(args.root_id, args.max_depth)
        /\ args.root_id \in Keys(result.nodes)

\* C32 as amended: a get_subgraph(root, d) that returned holds exactly the
\* nodes at most d hops from the root along stored edges: the root when
\* d >= 0 and no node at all when d < 0.
C32_NodeSet ==
    Returned =>
        /\ Keys(result.nodes) = Within(args.root_id, args.max_depth)
        /\ args.max_depth >= 0 <=> args.root_id \in Keys(result.nodes)
        /\ \A i \in 1..Len(result.nodes) :
              result.nodes[i].v = Get(metadata, result.nodes[i].k)

C32_Witness ==
    /\ Returned
    /\ args.max_depth = 1
    /\ Cardinality(Keys(result.nodes)) = 2
    /\ Within(args.root_id, 2) # Within(args.root_id, 1)

\* C33: for every node of a returned subgraph, the edges emitted from it are
\* the edges of its stored list, each once and in the stored order.
C33_EdgesOnce ==
    Returned =>
        /\ \A n \in Keys(result.nodes) : EmittedFrom(n) = EdgesOf(connections, n)
        /\ Len(result.edges) =
               TotalEdges(SelectSeq(connections, LAMBDA c : c.k \in Keys(result.nodes)))

C33_Witness ==
    /\ Returned
    /\ \E e \in Range(result.edges) :
          /\ e.to = args.root_id
          /\ e.from # args.root_id
          /\ Len(SelectSeq(result.edges,
                           LAMBDA f : f.from = args.root_id /\ f.to = e.from)) = 2

\* C39: in a returned subgraph the root is a node, the source of every edge
\* is a node, every edge is an edge of its source's stored list, and every
\* node is reached from the root along emitted edges.
RECURSIVE ReachedVia(_, _)
ReachedVia(S, edges) ==
    LET T == S \cup {e.to : e \in {f \in Range(edges) : f.from \in S}}
    IN IF T = S THEN S ELSE ReachedVia(T, edges)

WellFormed ==
    /\ \A e \in Range(result.edges) :
          /\ e.from \in Keys(result.nodes)
          /\ [to |-> e.to, type |-> e.relation] \in Range(Get(connections, e.from))
    /\ Keys(result.nodes) \subseteq ReachedVia({args.root_id}, result.edges)

C39_WellFormedRootAlways ==
    Returned => (args.root_id \in Keys(result.nodes) /\ WellFormed)

\* C39 as amended: the same, the root being a node when max_depth >= 0; with
\* a negative max_depth the subgraph has no node and no edge.
C39_WellFormed ==
    Returned =>
        IF args.max_depth >= 0
        THEN args.root_id \in Keys(result.nodes) /\ WellFormed
        ELSE result = NoResult

C39_Witness ==
    /\ Returned
    /\ args.max_depth = 2
    /\ Cardinality(Keys(result.nodes)) = 3
    /\ Len(result.edges) = 3
    /\ \A e \in Range(result.edges) : e.from # e.to

\* C34: the file a save has completed is the store as it stands, and from
\* the moment an add_item or add_connection has updated the maps until its
\* save has ended no other coroutine gets the lock (the end of the process
\* apart).
C34_CoherentSnapshots ==
    [][/\ (saveStatus' = "ok" /\ disk' # disk) =>
               disk' = JsonDump(SaveData(vectors, metadata, connections))
       /\ \A t \in Workers, p \in Procs :
             (/\ p # t
              /\ pc[t] \in {"save_item", "save_connection", "save_write"}
              /\ lock.owner = t
              /\ Acquired(lock', p)
              /\ pc'[Main] # "down")
             => (pc[t] = "save_write" \/ saveStatus' = "failed")]_vars

C36_LoadReplaces ==
    (args.op = "initialize" /\ loadStatus = "loaded") =>
        /\ JsonDump(SaveData(vectors, metadata, connections)) = disk
        /\ Keys(vectors) = DiskIds(disk)
        /\ SameKeys(vectors, metadata, connections)

C36_Witness ==
    /\ args.op = "initialize"
    /\ loadStatus = "loaded"
    /\ vectors # <<>>
    /\ issued \ Keys(vectors) # {}
    /\ TotalEdges(connections) = 0

\* C37: a worker whose add_connection, get_subgraph or search has raised
\* neither holds the lock nor waits for it; when no call is in flight the
\* lock is free, and a call that holds the lock is not the one that raised.
ErrorExits == {"BothIdsMustExist", "IdNotFound", "IncompatibleDimension"}

C37_ErrorReleases ==
    \A t \in Workers :
        (pc[t] = "idle" /\ ret[t] \in ErrorExits) =>
            /\ lock.owner # t
            /\ t \notin Range(lock.waiters)
            /\ (pc[Main] = "serving" /\ \A u \in Workers : pc[u] = "idle") => lock = FreeLock
            /\ lock.owner # NoOwner => pc[lock.owner] # "idle"

C37_Witness ==
    \E t \in Workers, u \in Workers :
        /\ pc[t] = "idle"
        /\ ret[t] \in ErrorExits
        /\ pc[u] \in ReadPcs
        /\ Acquired(lock, u)

\* C38: when close() has saved without error in a life of the store whose
\* load had failed, the file is the store as it is, and the record of the
\* file that could not be loaded (id 0) is not in it.
C38_NoResurrection ==
    (loadStatus = "failed" /\ pc[Main] = "closed" /\ saveStatus = "ok") =>
        /\ Persisted
        /\ DiskIds(disk) = Keys(vectors)
        /\ OldEntry.k \notin DiskIds(disk)

C38_Witness ==
    /\ loadStatus = "failed"
    /\ pc[Main] = "closed"
    /\ saveStatus = "ok"
    /\ JsonValid(disk)
    /\ vectors # <<>>

====
